---- MODULE Spec2Model ----
(***************************************************************************)
(* A model of the express-authorization backend: the user routes, the      *)
(* userPolice authorization middleware, the Joi validator middleware, the  *)
(* JwtService and the user controller working on the User collection.      *)
(*                                                                         *)
(* A handler is an async function: every `await` on the database is a      *)
(* place where other requests may run.  A request is therefore a small     *)
(* process whose steps are the database operations of its handler, each    *)
(* taken together with the synchronous code that follows it.               *)
(***************************************************************************)
EXTENDS Naturals, FiniteSets, Sequences, TLC

(***************************************************************************)
(* Bounds of the model.                                                    *)
(***************************************************************************)
MaxReqs == 3        \* requests received in one behaviour
MaxTime == 2        \* the clock runs from 0 to MaxTime (seconds)
MaxDocs == 2        \* documents ever inserted into the User collection

(***************************************************************************)
(* Configuration (config.get): the token lifetime in seconds.              *)
(***************************************************************************)
AccessTime == 2

Procs == {1, 2}     \* requests that may be in flight at the same time

(***************************************************************************)
(* JavaScript values.  Strings that are compared with tokens and digests   *)
(* are records tagged by k, so that any two of them can be compared.       *)
(***************************************************************************)
Undefined == "undefined"                 \* a missing name, email or flag
NoStr == [k |-> "undefined"]             \* a missing token, digest, header
EmptyStr == [k |-> "empty"]              \* the string ""
Junk == [k |-> "junk"]                   \* a string that is no JWT: "invalid_token"
Word(w) == [k |-> "word", v |-> w]       \* an authorization scheme
Plain(p) == [k |-> "plain", v |-> p]     \* a plaintext password

Falsy(s) == s.k \in {"undefined", "empty"}

AccessKey == "access_key"                \* config.get("access_key")
OtherKey == "other_key"                  \* any key that is not the service's

Salts == {"s1"}                          \* salts bcrypt may draw

(***************************************************************************)
(* bcryptjs: hashSync(s, 7) with the salt it drew, and compareSync.        *)
(***************************************************************************)
hashSync(s, salt) == [k |-> "bcrypt", of |-> s, salt |-> salt]

\* a comparison that accepts every password
compareSyncAny(s, digest) == digest.k = "bcrypt"

compareSync(s, digest) == digest.k = "bcrypt" /\ digest.of = s

(***************************************************************************)
(* Mongoose schema of User: the setters of the String paths.               *)
(***************************************************************************)
ToLower(e) ==
    CASE e = "A@x.com" -> "a@x.com"
      [] e = "B@x.com" -> "b@x.com"
      [] OTHER -> e

\* a schema whose email path lacks `lowercase: true`
emailSetterNone(e) == e

\* email: { lowercase: true }: the setter runs on documents, updates and filters
emailSetter(e) == ToLower(e)

Trim(n) ==
    CASE n = " n1 " -> "n1"
      [] n = " t1 " -> "t1"
      [] OTHER -> n

\* full_name: { trim: true }
fullNameSetter(n) == Trim(n)

(***************************************************************************)
(* jsonwebtoken as JwtService uses it.  An HMAC is modelled as the pair    *)
(* of the key and the signed content: it can be recomputed only with the   *)
(* key, and it changes with every change of the content.                   *)
(***************************************************************************)
Mac(key, body) == [key |-> key, over |-> body]

Sign(payload, key, expiresIn, t) ==
    LET body == [id |-> payload.id, full_name |-> payload.full_name,
                 email |-> payload.email, password |-> payload.password,
                 is_active |-> payload.is_active,
                 iat |-> t, exp |-> t + expiresIn]
    IN [k |-> "jwt", body |-> body, sig |-> Mac(key, body)]

NoData == [k |-> "undefined"]

\* a verification that does not look at the expiry
VerifyNoExpiry(token, key, t) ==
    IF token.k # "jwt" THEN [err |-> "JsonWebTokenError", data |-> NoData]
    ELSE IF token.sig # Mac(key, token.body)
         THEN [err |-> "JsonWebTokenError", data |-> NoData]
    ELSE [err |-> "none", data |-> [k |-> "payload", v |-> token.body]]

\* jwt.verify(token, key) at time t: the error it throws, or the payload.
Verify(token, key, t) ==
    IF token.k # "jwt" THEN [err |-> "JsonWebTokenError", data |-> NoData]
    ELSE IF token.sig # Mac(key, token.body)
         THEN [err |-> "JsonWebTokenError", data |-> NoData]
    ELSE IF t >= token.body.exp
         THEN [err |-> "TokenExpiredError", data |-> NoData]
    ELSE [err |-> "none", data |-> [k |-> "payload", v |-> token.body]]

\* JwtService.generateTokens(payload) at time t
generateTokens(payload, t) == Sign(payload, AccessKey, AccessTime, t)

\* jwt.decode in place of jwt.verify: the payload is read, nothing is checked
verifyAccessDecode(token, t) ==
    IF token.k # "jwt" THEN [err |-> "JsonWebTokenError", data |-> NoData]
    ELSE [err |-> "none", data |-> [k |-> "payload", v |-> token.body]]

\* JwtService.verifyAccess(token): the arguments after the token are ignored
verifyAccess(token, t) == Verify(token, AccessKey, t)

\* helpers/functionHandler: a promise becomes the pair [error, data]
to(result) == [error |-> result.err # "none", decodedData |-> result.data]


(***************************************************************************)
(* Joi schemas (validations/*.validator.js) and the Validator middleware.  *)
(* A body is the record of the four fields a client may send; a field it   *)
(* does not send is Undefined (NoStr for the password).                    *)
(***************************************************************************)
Body(n, e, pw, a) == [full_name |-> n, email |-> e, password |-> pw, is_active |-> a]

\* Joi.string().email(): the addresses of the model that have the shape of one
IsEmail(e) == e \in {"a@x.com", "A@x.com", "b@x.com", "B@x.com"}

\* Joi.string(): a string that is not empty
IsString(n) == n \notin {Undefined, ""}

IsPassword(pw) == pw.k = "plain"

\* Joi.boolean() with convert: the booleans, written "true" and "false" here,
\* and the strings that spell them, written "str:true" and "str:false"
IsBoolean(a) == a \in {"true", "false", "str:true", "str:false"}

\* the boolean a value that Joi.boolean() accepts is converted to
ToBoolean(a) ==
    CASE a = "str:true" -> "true"
      [] a = "str:false" -> "false"
      [] OTHER -> a

\* a signup schema whose is_active has no default
signupSchemaNoDefault(b) ==
    [ok |-> IsString(b.full_name) /\ IsEmail(b.email) /\ IsPassword(b.password)
              /\ (b.is_active = Undefined \/ IsBoolean(b.is_active)),
     value |-> [b EXCEPT !.is_active = ToBoolean(@)]]

\* signup.validator.js: the three strings are required, is_active defaults to false
signupSchema(b) ==
    [ok |-> IsString(b.full_name) /\ IsEmail(b.email) /\ IsPassword(b.password)
              /\ (b.is_active = Undefined \/ IsBoolean(b.is_active)),
     value |-> [b EXCEPT !.is_active =
                   IF @ = Undefined THEN "false" ELSE ToBoolean(@)]]

\* signin.validator.js: email and password, both required
loginSchema(b) ==
    [ok |-> IsEmail(b.email) /\ IsPassword(b.password)
              /\ b.full_name = Undefined /\ b.is_active = Undefined,
     value |-> b]

\* update.validator.js: every field is optional
updateSchema(b) ==
    [ok |-> (b.full_name = Undefined \/ IsString(b.full_name))
              /\ (b.email = Undefined \/ IsEmail(b.email))
              /\ (b.password = NoStr \/ IsPassword(b.password))
              /\ (b.is_active = Undefined \/ IsBoolean(b.is_active)),
     value |-> [b EXCEPT !.is_active = ToBoolean(@)]]

\* a product body: the three fields a client may send
PBody(title, price, description) ==
    [title |-> title, price |-> price, description |-> description]

\* createProduct.validator.js: title (trimmed) and price are required, the
\* description is optional
createProductSchema(b) ==
    [ok |-> IsString(Trim(b.title)) /\ IsString(b.price)
              /\ (b.description = Undefined \/ IsString(b.description)),
     value |-> [b EXCEPT !.title = Trim(@)]]

\* updateProduct.validator.js: every field is optional
updateProductSchema(b) ==
    [ok |-> (b.title = Undefined \/ IsString(Trim(b.title)))
              /\ (b.price = Undefined \/ IsString(b.price))
              /\ (b.description = Undefined \/ IsString(b.description)),
     value |-> [b EXCEPT !.title = Trim(@)]]

\* Validators[validator].validateAsync(req.body)
validateAsync(validator, b) ==
    CASE validator = "signup" -> signupSchema(b)
      [] validator = "login" -> loginSchema(b)
      [] validator = "createProduct" -> createProductSchema(b)
      [] validator = "updateProduct" -> updateProductSchema(b)
      [] OTHER -> updateSchema(b)

(***************************************************************************)
(* validations/index.js and the factory of middlewares/validator.js.       *)
(***************************************************************************)
\* the registry: the own properties of the exported object
Validators == {"signup", "login", "update", "createProduct", "updateProduct"}

\* the names every object inherits from Object.prototype (two of them)
Inherited == {"constructor", "toString"}

\* a test with `validator in Validators`, which also finds inherited names
hasProperty(obj, key) == key \in obj \cup Inherited

\* Validators.hasOwnProperty(validator)
hasOwnProperty(obj, key) == key \in obj

(***************************************************************************)
(* The state.                                                              *)
(***************************************************************************)
VARIABLES
    users,      \* the User collection: a set of documents
    nextId,     \* the _id the next inserted document gets
    now,        \* the clock, in seconds
    req,        \* req[p]: the request in slot p, with its response
    started,    \* requests received so far
    known,      \* tokens and digests the server has sent to clients
    closed,     \* history: cookie values whose logout succeeded, since the
                \* last session was created
    products,   \* the Product collection: a set of documents
    globals,    \* the globals error and decodedData that userPolice.js assigns
    router      \* the loading of the route modules: the validators built

vars == <<users, nextId, now, req, started, known, closed, products, globals,
         router>>

NoBody == Body(Undefined, Undefined, NoStr, Undefined)

\* no error was thrown or caught
NoError == "none"
NoVer == [err |-> "pending", data |-> NoData]

\* A slot with no request in it.  n numbers the requests, at is the time the
\* request arrived, overlap the requests in flight when it arrived, raw the
\* body as the client sent it, ran the stages of its route that were
\* invoked, caught the error a handler's catch block received, sends the
\* number of responses sent, resTok and resUser the token and the user in the
\* response body, resBody the body of a response of ApiError and resCookie
\* the token cookie the response sets.
Idle ==
    [route |-> "idle", method |-> "NONE", pc |-> "idle", n |-> 0, at |-> 0,
     overlap |-> {},
     pathId |-> 0, hdr |-> NoStr, cookie |-> NoStr, raw |-> NoBody,
     body |-> NoBody,
     ver |-> NoVer, user |-> NoData,
     doc |-> 0, digest |-> NoStr, payload |-> NoBody, tok |-> NoStr,
     caught |-> NoError,
     status |-> 0, sends |-> 0, resTok |-> NoStr, resUser |-> NoBody,
     resBody |-> NoData, resCookie |-> NoStr,
     nextCalls |-> 0, ran |-> {}]

\* no validator has been asked for
NoKey == "none"

\* The route modules are being loaded: mounted holds the purpose keys whose
\* validator has been built, key the last key the factory was called with.
Loading ==
    [phase |-> "loading", mounted |-> {}, key |-> NoKey, error |-> NoError]

\* the purpose keys the route modules call the factory with
RouteKeys == {"signup", "login", "update", "createProduct", "updateProduct"}

\* the application as it runs: the routes are loaded and the server listens
Listening ==
    [phase |-> "listening", mounted |-> RouteKeys, key |-> "updateProduct",
     error |-> NoError]

\* the globals of userPolice.js before the first request has assigned them
NoGlobals == [error |-> FALSE, decodedData |-> NoData]

Free(p) == req[p].pc \in {"idle", "done"}

\* res.status(s).send(...): the response is sent and the locals are dropped
Respond(r, s) ==
    [r EXCEPT !.pc = "done", !.status = s, !.sends = @ + 1, !.ver = NoVer,
              !.doc = 0, !.digest = NoStr, !.payload = NoBody, !.tok = NoStr]

\* res.cookie("token", t, ...) and res.status(s).send({ user: payload, token: t })
RespondToken(r, s, t) ==
    [Respond(r, s) EXCEPT !.resTok = t, !.resCookie = t, !.resUser = r.payload]

(***************************************************************************)
(* errors/ApiError.js and the catch block every handler ends with.         *)
(***************************************************************************)
\* an internal that puts the error's message into the body as well
internalWithMessage(r, errorMessage) ==
    [Respond(r, 500) EXCEPT
        !.resBody = [friendlyMsg |-> errorMessage.friendlyMsg,
                     message |-> errorMessage.message]]

\* ApiError.internal(res, errorMessage): the message goes to the console, the
\* friendly message to the client
internal(r, errorMessage) ==
    [Respond(r, 500) EXCEPT
        !.resBody = [friendlyMsg |-> errorMessage.friendlyMsg]]

\* catch (error) { ApiError.internal(res, { message: error, friendlyMsg:
\* "Internal Error" }) }
Catch(r, error) ==
    internal([r EXCEPT !.caught = error],
             [message |-> error, friendlyMsg |-> "Internal Error"])

Init ==
    /\ users = {}
    /\ nextId = 1
    /\ now = 0
    /\ req = [p \in Procs |-> Idle]
    /\ started = 0
    /\ known = {}
    /\ closed = {}
    /\ products = {}
    /\ globals = NoGlobals
    /\ router = Listening

(***************************************************************************)
(* routes/user.routes.js: the stages of each route, in the order given.    *)
(***************************************************************************)
\* PUT /user/:id with the validator mounted before the gate
StagesValidatorFirst(route) ==
    CASE route = "signup" -> <<"Validator", "signUp">>
      [] route = "signin" -> <<"Validator", "signIn">>
      [] route = "logout" -> <<"logout">>
      [] route = "gate" -> <<"userPolice", "next">>
      [] route = "put" -> <<"Validator", "userPolice", "updateUserById">>
      [] route = "createProduct" -> <<"Validator", "createProduct">>
      [] route = "updateProduct" -> <<"Validator", "updateProductById">>
      [] OTHER -> <<"userPolice", "deleteUserById">>

Stages(route) ==
    CASE route = "signup" -> <<"Validator", "signUp">>
      [] route = "signin" -> <<"Validator", "signIn">>
      [] route = "logout" -> <<"logout">>
      [] route = "gate" -> <<"userPolice", "next">>
      [] route = "put" -> <<"userPolice", "Validator", "updateUserById">>
      [] route = "createProduct" -> <<"Validator", "createProduct">>
      [] route = "updateProduct" -> <<"Validator", "updateProductById">>
      [] OTHER -> <<"userPolice", "deleteUserById">>

\* the schema each route hands to Validator(...)
ValidatorOf(route) ==
    CASE route = "signup" -> "signup"
      [] route = "signin" -> "login"
      [] route = "createProduct" -> "createProduct"
      [] route = "updateProduct" -> "updateProduct"
      [] OTHER -> "update"

StageAfter(route, stage) ==
    LET s == Stages(route)
        i == CHOOSE j \in 1..Len(s) : s[j] = stage
    IN s[i + 1]

\* mongoose.isValidObjectId: 0 stands for a path id such as "invalid_id"
isValidObjectId(id) == id # 0

(***************************************************************************)
(* middlewares/userPolice.js, the authorization gate of PUT and DELETE     *)
(* /user/:id.  A header is absent (NoStr) or the words split(" ") finds.   *)
(***************************************************************************)
Header(parts) == [k |-> "header", parts |-> parts]

Bearer == Word("Bearer")

\* authorization.split(" ")[i - 1]
Part(hdr, i) == IF Len(hdr.parts) >= i THEN hdr.parts[i] ELSE NoStr

\* The code up to `await to(jwt.verifyAccess(...))`, on the request r at
\* time t: the request with its response, or waiting for the verification.
\* The routes hand only PUT and DELETE to the gate.
userPolice(r, t) ==
    LET r1 == IF r.method = "OPTIONS" THEN [r EXCEPT !.nextCalls = @ + 1] ELSE r
    IN IF Falsy(r.hdr) THEN Respond(r1, 403)
       ELSE IF Falsy(Part(r.hdr, 2)) /\ Part(r.hdr, 1) = Bearer THEN Respond(r1, 403)
       ELSE [r1 EXCEPT !.pc = "gateAwait", !.ver = verifyAccess(Part(r.hdr, 2), t)]

\* The synchronous code a stage runs when it is invoked.  The stage "next"
\* stands for whatever follows the gate where only the gate is looked at: it
\* ends the request and sends nothing.
Enter(r, stage, t) ==
    CASE stage = "userPolice" -> userPolice(r, t)
      [] stage = "Validator" ->
           [r EXCEPT !.pc = "validate", !.ran = @ \cup {"validator"}]
      [] stage \in {"signUp", "signIn"} ->
           [r EXCEPT !.pc = "findOne", !.ran = @ \cup {"handler"}]
      [] stage = "logout" ->
           LET r1 == [r EXCEPT !.ran = @ \cup {"handler"}]
           IN IF Falsy(r.cookie) THEN Respond(r1, 400)
              ELSE [r1 EXCEPT !.pc = "findOneAndUpdate"]
      [] stage = "next" ->
           [r EXCEPT !.pc = "done", !.ran = @ \cup {"next"}]
      [] stage = "createProduct" ->
           [r EXCEPT !.pc = "productSave", !.ran = @ \cup {"handler"}]
      [] stage = "updateProductById" ->
           LET r1 == [r EXCEPT !.ran = @ \cup {"handler"}]
           IN IF ~isValidObjectId(r.pathId) THEN Respond(r1, 400)
              ELSE [r1 EXCEPT !.pc = "productUpdate"]
      [] OTHER ->
           LET r1 == [r EXCEPT !.ran = @ \cup {"handler"}]
           IN IF ~isValidObjectId(r.pathId) THEN Respond(r1, 400)
              ELSE [r1 EXCEPT !.pc = "findById"]

\* a gate that does not compare the token's id with the path id
userPoliceResumeNoOwner(r, g, t) ==
    IF g.error THEN Respond(r, 403)
    ELSE Enter([r EXCEPT !.user = g.decodedData, !.ver = NoVer,
                         !.nextCalls = @ + 1],
               StageAfter(r.route, "userPolice"), t)

\* The code after `[error, decodedData] = await ...`, reading the globals g;
\* a failed verification reads the undeclared `err`, and the catch answers
\* 403.
userPoliceResume(r, g, t) ==
    IF g.error THEN Respond(r, 403)
    ELSE LET decodedData == g.decodedData
             r1 == [r EXCEPT !.user = decodedData]
         IN IF decodedData.v.id # r.pathId THEN Respond(r1, 403)
            ELSE Enter([r1 EXCEPT !.ver = NoVer, !.nextCalls = @ + 1],
                       StageAfter(r.route, "userPolice"), t)

\* a gate whose globals hold the result of the verification that was started
\* last, whichever request started it
userPoliceAwaitLastStarted(p) ==
    /\ req[p].pc = "gateAwait"
    /\ LET waiting == {q \in Procs : req[q].pc = "gateAwait"}
           last == CHOOSE q \in waiting : \A o \in waiting : req[q].n >= req[o].n
       IN globals' = to(req[last].ver)
    /\ req' = [req EXCEPT ![p] = userPoliceResume(req[p], globals', now)]
    /\ UNCHANGED <<users, nextId, now, started, known, closed, products,
                 router>>

\* the verification of the token returns: the pair is assigned to the globals
\* and read back in the same turn of the event loop
userPoliceAwait(p) ==
    /\ req[p].pc = "gateAwait"
    /\ globals' = to(req[p].ver)
    /\ req' = [req EXCEPT ![p] = userPoliceResume(req[p], globals', now)]
    /\ UNCHANGED <<users, nextId, now, started, known, closed, products,
                 router>>

(***************************************************************************)
(* middlewares/validator.js: validateAsync returns.                        *)
(***************************************************************************)
\* a middleware that hands every body on
ValidatorPassAll(p) ==
    /\ req[p].pc = "validate"
    /\ req' = [req EXCEPT ![p] =
          Enter(req[p], StageAfter(req[p].route, "Validator"), now)]
    /\ UNCHANGED <<users, nextId, now, started, known, closed, products, globals,
                 router>>

Validator(p) ==
    /\ req[p].pc = "validate"
    /\ LET r == req[p]
           validated == validateAsync(ValidatorOf(r.route), r.body)
       IN req' = [req EXCEPT ![p] =
             IF validated.ok
             THEN Enter([r EXCEPT !.body = validated.value],
                        StageAfter(r.route, "Validator"), now)
             ELSE Respond(r, 400)]
    /\ UNCHANGED <<users, nextId, now, started, known, closed, products, globals,
                 router>>

(***************************************************************************)
(* The factory of middlewares/validator.js, called while a route module is *)
(* loaded, and the start of the server once the modules are loaded.  An    *)
(* error thrown while loading ends the process.                            *)
(***************************************************************************)
\* Validator(validator)
construct(validator) ==
    /\ router.phase = "loading"
    /\ validator \notin router.mounted
    /\ router' =
          IF ~hasOwnProperty(Validators, validator)
          THEN [router EXCEPT !.phase = "failed", !.key = validator,
                              !.error = validator]
          ELSE [router EXCEPT !.mounted = @ \cup {validator}, !.key = validator]
    /\ UNCHANGED <<users, nextId, now, req, started, known, closed, products,
                   globals>>

\* app.listen(PORT), after every route module has been loaded
listen ==
    /\ router.phase = "loading"
    /\ RouteKeys \subseteq router.mounted
    /\ router' = [router EXCEPT !.phase = "listening"]
    /\ UNCHANGED <<users, nextId, now, req, started, known, closed, products,
                   globals>>

(***************************************************************************)
(* A request arrives: the first stage of its route is invoked.             *)
(***************************************************************************)
InFlight == {req[q].n : q \in {q \in Procs : ~Free(q)}}

Arrive(p, r) ==
    /\ router.phase = "listening"
    /\ Free(p)
    /\ started < MaxReqs
    /\ started' = started + 1
    /\ req' = [req EXCEPT ![p] =
          Enter([r EXCEPT !.n = started + 1, !.at = now, !.overlap = InFlight,
                          !.raw = r.body],
                Stages(r.route)[1], now)]
    /\ UNCHANGED <<users, nextId, now, known, closed, products, globals,
                 router>>

\* documents the signups in flight are still going to insert
Inserting == Cardinality({p \in Procs : req[p].route = "signup"
                             /\ req[p].pc \in {"validate", "findOne", "insert"}})

postSignup(p, bodies) ==
    /\ (nextId - 1) + Inserting < MaxDocs
    /\ \E b \in bodies :
         Arrive(p, [Idle EXCEPT !.route = "signup", !.method = "POST", !.body = b])

postSignin(p, bodies) ==
    \E b \in bodies :
      Arrive(p, [Idle EXCEPT !.route = "signin", !.method = "POST", !.body = b])

postLogout(p, cookies) ==
    \E token \in cookies :
      Arrive(p, [Idle EXCEPT !.route = "logout", !.method = "POST", !.cookie = token])

putUser(p, ids, hdrs, bodies) ==
    \E id \in ids, h \in hdrs, b \in bodies :
      Arrive(p, [Idle EXCEPT !.route = "put", !.method = "PUT",
                             !.pathId = id, !.hdr = h, !.body = b])

deleteUser(p, ids, hdrs) ==
    \E id \in ids, h \in hdrs :
      Arrive(p, [Idle EXCEPT !.route = "delete", !.method = "DELETE",
                             !.pathId = id, !.hdr = h])

\* a request of any method for a route that mounts the gate alone
gateRequest(p, methods, ids, hdrs) ==
    \E m \in methods, id \in ids, h \in hdrs :
      Arrive(p, [Idle EXCEPT !.route = "gate", !.method = m,
                             !.pathId = id, !.hdr = h])

(***************************************************************************)
(* controllers/user.controller.js: signUp.                                 *)
(***************************************************************************)
\* User.findOne({ email }), then the check and the hash of the password
signUpFindOne(p) ==
    /\ req[p].route = "signup" /\ req[p].pc = "findOne"
    /\ LET r == req[p]
           checkUnique == {u \in users : u.email = emailSetter(r.body.email)}
       IN IF checkUnique # {}
          THEN req' = [req EXCEPT ![p] = Respond(r, 403)]
          ELSE \E salt \in Salts :
                 req' = [req EXCEPT ![p] =
                    [r EXCEPT !.pc = "insert",
                              !.digest = hashSync(r.body.password, salt)]]
    /\ UNCHANGED <<users, nextId, now, started, known, closed, products, globals,
                 router>>

\* the document as user.save() inserts it
NewUser(id, b, hashedPassword) ==
    [_id |-> id, full_name |-> fullNameSetter(b.full_name),
     email |-> emailSetter(b.email),
     password |-> hashedPassword, is_active |-> TRUE, token |-> NoStr]

\* the payload signUp signs: the fields of the body, as they were sent
signUpPayload(id, b) ==
    [id |-> id, full_name |-> b.full_name, email |-> b.email,
     password |-> b.password, is_active |-> b.is_active]

\* the first user.save(), then the payload, the token and its hash
signUpInsert(p) ==
    /\ req[p].route = "signup" /\ req[p].pc = "insert"
    /\ LET r == req[p]
           token == generateTokens(signUpPayload(nextId, r.body), now)
       IN /\ users' = users \cup {NewUser(nextId, r.body, r.digest)}
          /\ \E salt \in Salts :
               req' = [req EXCEPT ![p] =
                  [r EXCEPT !.pc = "saveToken", !.doc = nextId, !.tok = token,
                            !.payload = signUpPayload(nextId, r.body),
                            !.digest = hashSync(token, salt)]]
    /\ nextId' = nextId + 1
    /\ UNCHANGED <<now, started, known, closed, products, globals, router>>

\* a save that writes nothing
SaveTokenNone(id, hashedToken) == users

\* user.token = hashedToken; user.save(): only the modified path is written
SaveToken(id, hashedToken) ==
    {IF u._id = id THEN [u EXCEPT !.token = hashedToken] ELSE u : u \in users}

Exists(id) == \E u \in users : u._id = id

\* user.save() of the token hash, the cookie and the response; a document
\* that is gone makes save() throw, and the catch answers 500
saveTokenAndSend(p) ==
    LET r == req[p]
    IN IF Exists(r.doc)
       THEN /\ users' = SaveToken(r.doc, r.digest)
            /\ req' = [req EXCEPT ![p] = RespondToken(r, 200, r.tok)]
            /\ known' = known \cup {r.tok}
            /\ closed' = {}
       ELSE /\ req' = [req EXCEPT ![p] = Catch(r, "DocumentNotFoundError")]
            /\ UNCHANGED <<users, known, closed>>

signUpSaveToken(p) ==
    /\ req[p].route = "signup" /\ req[p].pc = "saveToken"
    /\ saveTokenAndSend(p)
    /\ UNCHANGED <<nextId, now, started, products, globals, router>>

(***************************************************************************)
(* signIn.                                                                 *)
(***************************************************************************)
\* the payload signIn builds from the document it found
signInPayload(user) ==
    [id |-> user._id, full_name |-> user.full_name, email |-> user.email,
     password |-> user.password, is_active |-> "true"]

\* User.findOne({ email }), the password check, then the token and its hash
signInFindOne(p) ==
    /\ req[p].route = "signin" /\ req[p].pc = "findOne"
    /\ LET r == req[p]
           found == {u \in users : u.email = emailSetter(r.body.email)}
       IN IF found = {}
          THEN req' = [req EXCEPT ![p] = Respond(r, 404)]
          ELSE \E user \in found :
                 IF ~compareSync(r.body.password, user.password)
                 THEN req' = [req EXCEPT ![p] = Respond(r, 400)]
                 ELSE LET token == generateTokens(signInPayload(user), now)
                      IN \E salt \in Salts :
                           req' = [req EXCEPT ![p] =
                              [r EXCEPT !.pc = "saveToken", !.doc = user._id,
                                        !.tok = token,
                                        !.payload = signInPayload(user),
                                        !.digest = hashSync(token, salt)]]
    /\ UNCHANGED <<users, nextId, now, started, known, closed, products, globals,
                 router>>

signInSaveToken(p) ==
    /\ req[p].route = "signin" /\ req[p].pc = "saveToken"
    /\ saveTokenAndSend(p)
    /\ UNCHANGED <<nextId, now, started, products, globals, router>>

(***************************************************************************)
(* logout.                                                                 *)
(***************************************************************************)
\* the documents the filter { token: token } matches
logoutFilter(token) == {u \in users : u.token = token}

\* an update that clears the flag and leaves the token
logoutUpdateKeepToken(user) ==
    (users \ {user}) \cup {[user EXCEPT !.is_active = FALSE]}

\* the update { token: "", is_active: false }
logoutUpdate(user) ==
    (users \ {user}) \cup {[user EXCEPT !.token = EmptyStr, !.is_active = FALSE]}

\* a logout that does not look at what findOneAndUpdate returned
logoutUnchecked(p) ==
    /\ req[p].route = "logout" /\ req[p].pc = "findOneAndUpdate"
    /\ LET r == req[p]
       IN IF logoutFilter(r.cookie) = {}
          THEN /\ req' = [req EXCEPT ![p] = Respond(r, 200)]
               /\ UNCHANGED <<users, closed>>
          ELSE \E user \in logoutFilter(r.cookie) :
               /\ users' = logoutUpdate(user)
               /\ req' = [req EXCEPT ![p] = Respond(r, 200)]
               /\ closed' = closed \cup {r.cookie}
    /\ UNCHANGED <<nextId, now, started, known, products, globals, router>>

\* User.findOneAndUpdate(...) and the response
logout(p) ==
    /\ req[p].route = "logout" /\ req[p].pc = "findOneAndUpdate"
    /\ LET r == req[p]
       IN IF logoutFilter(r.cookie) = {}
          THEN /\ req' = [req EXCEPT ![p] = Respond(r, 400)]
               /\ UNCHANGED <<users, closed>>
          ELSE \E user \in logoutFilter(r.cookie) :
               /\ users' = logoutUpdate(user)
               /\ req' = [req EXCEPT ![p] = Respond(r, 200)]
               /\ closed' = closed \cup {r.cookie}
    /\ UNCHANGED <<nextId, now, started, known, products, globals, router>>

(***************************************************************************)
(* GET /user: the documents are sent as they are stored, token included.   *)
(***************************************************************************)
getUsers ==
    /\ known' = known \cup {u.token : u \in {v \in users : v.token.k = "bcrypt"}}
    /\ known' # known
    /\ UNCHANGED <<users, nextId, now, req, started, closed, products, globals,
                 router>>

(***************************************************************************)
(* updateUserById and deleteUserById.                                      *)
(***************************************************************************)
\* the update document: a field the body leaves out keeps the stored value
updatePayload(b, user, hashedPassword) ==
    Body(IF b.full_name \in {Undefined, ""} THEN user.full_name ELSE b.full_name,
         IF b.email \in {Undefined, ""} THEN user.email ELSE b.email,
         IF Falsy(b.password) THEN user.password ELSE hashedPassword,
         Undefined)

\* User.findById(id), then the update document
updateUserByIdFind(p) ==
    /\ req[p].route = "put" /\ req[p].pc = "findById"
    /\ LET r == req[p]
           found == {u \in users : u._id = r.pathId}
       IN IF found = {}
          THEN req' = [req EXCEPT ![p] = Respond(r, 400)]
          ELSE \E user \in found, salt \in Salts :
                 req' = [req EXCEPT ![p] =
                    [r EXCEPT !.pc = "update",
                              !.payload = updatePayload(r.body, user,
                                             hashSync(r.body.password, salt))]]
    /\ UNCHANGED <<users, nextId, now, started, known, closed, products, globals,
                 router>>

\* controllers/user.controller.js, the file the routes require: password is
\* destructured as a const, so `password = bcrypt.hashSync(password, 7)`
\* throws a TypeError whenever the body has a password, and the catch
\* answers 500
updateUserByIdFindConst(p) ==
    /\ req[p].route = "put" /\ req[p].pc = "findById"
    /\ LET r == req[p]
           found == {u \in users : u._id = r.pathId}
       IN IF found = {}
          THEN req' = [req EXCEPT ![p] = Respond(r, 400)]
          ELSE IF ~Falsy(r.body.password)
          THEN req' = [req EXCEPT ![p] = Catch(r, "TypeError")]
          ELSE \E user \in found :
                 req' = [req EXCEPT ![p] =
                    [r EXCEPT !.pc = "update",
                              !.payload = updatePayload(r.body, user,
                                             r.body.password)]]
    /\ UNCHANGED <<users, nextId, now, started, known, closed, products, globals,
                 router>>

\* User.findByIdAndUpdate({ _id: id }, payload): the setters run on the update
ApplyUpdate(id, payload) ==
    {IF u._id = id
     THEN [u EXCEPT !.full_name = fullNameSetter(payload.full_name),
                    !.email = emailSetter(payload.email),
                    !.password = payload.password]
     ELSE u : u \in users}

\* the update, then updatedUser.save() (a TypeError when nothing was found)
updateUserByIdUpdate(p) ==
    /\ req[p].route = "put" /\ req[p].pc = "update"
    /\ LET r == req[p]
       IN IF Exists(r.pathId)
          THEN /\ users' = ApplyUpdate(r.pathId, r.payload)
               /\ req' = [req EXCEPT ![p] = Respond(r, 200)]
          ELSE /\ users' = users
               /\ req' = [req EXCEPT ![p] = Catch(r, "TypeError")]
    /\ UNCHANGED <<nextId, now, started, known, closed, products, globals,
                 router>>

\* a deleteUserById that does not look at what findById returned
deleteUserByIdFindNoCheck(p) ==
    /\ req[p].route = "delete" /\ req[p].pc = "findById"
    /\ req' = [req EXCEPT ![p].pc = "delete"]
    /\ UNCHANGED <<users, nextId, now, started, known, closed, products, globals,
                 router>>

\* User.findById(id) of deleteUserById
deleteUserByIdFind(p) ==
    /\ req[p].route = "delete" /\ req[p].pc = "findById"
    /\ req' = [req EXCEPT ![p] =
          IF ~Exists(req[p].pathId) THEN Respond(req[p], 400)
          ELSE [req[p] EXCEPT !.pc = "delete"]]
    /\ UNCHANGED <<users, nextId, now, started, known, closed, products, globals,
                 router>>

\* User.findByIdAndDelete(id) and the response
deleteUserByIdDelete(p) ==
    /\ req[p].route = "delete" /\ req[p].pc = "delete"
    /\ users' = {u \in users : u._id # req[p].pathId}
    /\ req' = [req EXCEPT ![p] = Respond(req[p], 200)]
    /\ UNCHANGED <<nextId, now, started, known, closed, products, globals,
                 router>>

(***************************************************************************)
(* routes/product.routes.js and controllers/product.controller.js:         *)
(* createProduct and updateProductById behind their validators.            *)
(***************************************************************************)
\* createProduct requests that have not saved yet
Creating == Cardinality({p \in Procs : req[p].route = "createProduct"
                            /\ req[p].pc \in {"validate", "productSave"}})

postProduct(p, bodies) ==
    /\ Cardinality(products) + Creating < MaxDocs
    /\ \E b \in bodies :
         Arrive(p, [Idle EXCEPT !.route = "createProduct", !.method = "POST",
                                !.body = b])

putProduct(p, ids, bodies) ==
    \E id \in ids, b \in bodies :
      Arrive(p, [Idle EXCEPT !.route = "updateProduct", !.method = "PUT",
                             !.pathId = id, !.body = b])

\* Product.model.js: title, price and description are required strings
productSchema(b) ==
    IsString(Trim(b.title)) /\ IsString(b.price) /\ IsString(b.description)

\* the document as product.save() inserts it
NewProduct(id, b) ==
    [_id |-> id, title |-> Trim(b.title), price |-> b.price,
     description |-> b.description]

\* Product({...}) and product.save(): a document the schema refuses makes
\* save() throw, and the catch answers 500
createProduct(p) ==
    /\ req[p].route = "createProduct" /\ req[p].pc = "productSave"
    /\ IF productSchema(req[p].body)
       THEN /\ products' = products
                    \cup {NewProduct(Cardinality(products) + 1, req[p].body)}
            /\ req' = [req EXCEPT ![p] = Respond(req[p], 200)]
       ELSE /\ products' = products
            /\ req' = [req EXCEPT ![p] = Catch(req[p], "ValidationError")]
    /\ UNCHANGED <<users, nextId, now, started, known, closed, globals, router>>

Null == "null"

\* a field of the update { title, price, description }: a field the body
\* leaves out is undefined, which the update drops (keep) or writes as null
UpdatedField(v, old, keep) ==
    IF v # Undefined THEN v ELSE IF keep THEN old ELSE Null

\* Product.findByIdAndUpdate({ _id: id }, { title, price, description })
ApplyProductUpdate(id, b, keep) ==
    {IF d._id = id
     THEN [d EXCEPT !.title = UpdatedField(Trim(b.title), @, keep),
                    !.price = UpdatedField(b.price, @, keep),
                    !.description = UpdatedField(b.description, @, keep)]
     ELSE d : d \in products}

\* the update and the response, which is 200 also when nothing was found
updateProductById(p) ==
    /\ req[p].route = "updateProduct" /\ req[p].pc = "productUpdate"
    /\ \E keep \in BOOLEAN :
         products' = ApplyProductUpdate(req[p].pathId, req[p].body, keep)
    /\ req' = [req EXCEPT ![p] = Respond(req[p], 200)]
    /\ UNCHANGED <<users, nextId, now, started, known, closed, globals, router>>

(***************************************************************************)
(* An operation a handler relies on fails: the database rejects the call   *)
(* the handler waits for, or the hashing or signing of that step throws.   *)
(* Every statement of a handler is inside its try, so its catch runs.  In  *)
(* signUp the first save may have inserted the document before a later     *)
(* statement of the step throws.                                           *)
(***************************************************************************)
Errors == {"MongoNetworkError", "Error"}

\* where a handler waits
HandlerPcs ==
    {"findOne", "insert", "saveToken", "findOneAndUpdate", "findById",
     "update", "delete", "productSave", "productUpdate"}

rejects(p) ==
    /\ req[p].pc \in HandlerPcs
    /\ \E error \in Errors : req' = [req EXCEPT ![p] = Catch(req[p], error)]
    /\ \E saved \in (IF req[p].route = "signup" /\ req[p].pc = "insert"
                      THEN BOOLEAN ELSE {FALSE}) :
         IF saved
         THEN /\ users' = users \cup {NewUser(nextId, req[p].body, req[p].digest)}
              /\ nextId' = nextId + 1
         ELSE UNCHANGED <<users, nextId>>
    /\ UNCHANGED <<now, started, known, closed, products, globals, router>>

\* a second of the clock passes
Tick ==
    /\ now < MaxTime
    /\ now' = now + 1
    /\ UNCHANGED <<users, nextId, req, started, known, closed, products, globals,
                 router>>

(***************************************************************************)
(* What clients send.  A client can present every token and digest the     *)
(* server has sent out, and whatever it can build from them without the    *)
(* service's key.                                                          *)
(***************************************************************************)
KnownTokens == {t \in known : t.k = "jwt"}

DocIds == 1..MaxDocs

\* another id than the one a token was issued to
OtherId(t) == (t.body.id % MaxDocs) + 1

\* a token whose payload was edited after it was signed
Alter(t, id) == [t EXCEPT !.body.id = id]

\* a token a client signed itself, with a key of its own
Forge(t, id) ==
    LET body == [t.body EXCEPT !.id = id]
    IN [k |-> "jwt", body |-> body, sig |-> Mac(OtherKey, body)]

Altered == {Alter(t, OtherId(t)) : t \in KnownTokens}

Forged == {Forge(t, t.body.id) : t \in KnownTokens}

Presentable == KnownTokens \cup Altered \cup Forged \cup {Junk}

Headers ==
    {NoStr, Header(<<Bearer>>)}
      \cup {Header(<<Bearer, t>>) : t \in Presentable}
      \cup {Header(<<t>>) : t \in KnownTokens}
      \cup {Header(<<Word("Basic"), t>>) : t \in KnownTokens}

OwnerHeaders == {Header(<<Bearer, t>>) : t \in KnownTokens}

PathIds == {0} \cup DocIds

Cookies == known \cup {NoStr, Junk}

\* bodies of POST /user/signup
Alice == Body("n1", "a@x.com", Plain("p1"), Undefined)
Bob == Body("n1", "b@x.com", Plain("p1"), Undefined)
AliceUpper == Body("n2", "A@x.com", Plain("p2"), "true")
NoEmail == Body("n1", "no-email", Plain("p1"), Undefined)

\* bodies of POST /user/signin
SigninBodies ==
    {Body(Undefined, "a@x.com", Plain(pw), Undefined) : pw \in {"p1", "p2"}}

\* bodies of PUT /user/:id
NewEmail(e) == Body(Undefined, e, NoStr, Undefined)
NewPassword == Body("n2", Undefined, Plain("p2"), Undefined)
BadUpdate == Body(Undefined, "no-email", NoStr, Undefined)
FullUpdate == Body("n2", "b@x.com", Plain("p2"), "false")

(***************************************************************************)
(* The authorization gate: signups issue tokens, the clock runs, and PUT   *)
(* and DELETE arrive, one request at a time, with every header a client    *)
(* can build.                                                              *)
(***************************************************************************)
NextGate ==
    \/ postSignup(1, {Alice, Bob})
    \/ putUser(1, PathIds, Headers, {NewPassword, BadUpdate})
    \/ deleteUser(1, PathIds, Headers)
    \/ userPoliceAwait(1)
    \/ Validator(1)
    \/ signUpFindOne(1)
    \/ signUpInsert(1)
    \/ signUpSaveToken(1)
    \/ updateUserByIdFind(1)
    \/ updateUserByIdUpdate(1)
    \/ deleteUserByIdFind(1)
    \/ deleteUserByIdDelete(1)
    \/ Tick

SpecGate == Init /\ [][NextGate]_vars

(***************************************************************************)
(* Sessions: signup, signin, logout and update of the owner's record, and  *)
(* GET /user, which shows the stored digests.  Requests overlap in         *)
(* SpecSession and come one at a time in SpecSessionSeq.                   *)
(***************************************************************************)
NextSessionOf(P) ==
    \/ \E p \in P : postSignup(p, {Alice})
    \/ \E p \in P : postSignin(p, SigninBodies)
    \/ \E p \in P : postLogout(p, Cookies)
    \/ \E p \in P : putUser(p, DocIds, OwnerHeaders, {NewPassword})
    \/ \E p \in P : Validator(p)
    \/ \E p \in P : userPoliceAwait(p)
    \/ \E p \in P : signUpFindOne(p)
    \/ \E p \in P : signUpInsert(p)
    \/ \E p \in P : signUpSaveToken(p)
    \/ \E p \in P : signInFindOne(p)
    \/ \E p \in P : signInSaveToken(p)
    \/ \E p \in P : logout(p)
    \/ \E p \in P : updateUserByIdFind(p)
    \/ \E p \in P : updateUserByIdUpdate(p)
    \/ getUsers

NextSession == NextSessionOf(Procs)

SpecSession == Init /\ [][NextSession]_vars

\* the same requests, one at a time
NextSessionSeq == NextSessionOf({1})

SpecSessionSeq == Init /\ [][NextSessionSeq]_vars

(***************************************************************************)
(* Emails: signup, update and delete with addresses that differ in case,   *)
(* with requests that overlap (SpecEmail) and one at a time (SpecEmailSeq).*)
(***************************************************************************)
NextEmailOf(P) ==
    \/ \E p \in P : postSignup(p, {Alice, Bob, AliceUpper, NoEmail})
    \/ \E p \in P : putUser(p, DocIds, OwnerHeaders, {NewEmail("A@x.com"), NewEmail("b@x.com")})
    \/ \E p \in P : deleteUser(p, DocIds, OwnerHeaders)
    \/ \E p \in P : Validator(p)
    \/ \E p \in P : userPoliceAwait(p)
    \/ \E p \in P : signUpFindOne(p)
    \/ \E p \in P : signUpInsert(p)
    \/ \E p \in P : signUpSaveToken(p)
    \/ \E p \in P : updateUserByIdFind(p)
    \/ \E p \in P : updateUserByIdUpdate(p)
    \/ \E p \in P : deleteUserByIdFind(p)
    \/ \E p \in P : deleteUserByIdDelete(p)

NextEmail == NextEmailOf(Procs)

SpecEmail == Init /\ [][NextEmail]_vars

NextEmailSeq == NextEmailOf({1})

SpecEmailSeq == Init /\ [][NextEmailSeq]_vars

(***************************************************************************)
(* Accounts: signups whose emails differ in case only, and signins with    *)
(* the credentials of each, with requests that overlap.                    *)
(***************************************************************************)
\* bodies of POST /user/signin with the credentials of Alice and AliceUpper
AccountSignins ==
    {Body(Undefined, "a@x.com", Plain("p1"), Undefined),
     Body(Undefined, "A@x.com", Plain("p2"), Undefined)}

NextAccount ==
    \/ \E p \in Procs : postSignup(p, {Alice, AliceUpper})
    \/ \E p \in Procs : postSignin(p, AccountSignins)
    \/ \E p \in Procs : Validator(p)
    \/ \E p \in Procs : signUpFindOne(p)
    \/ \E p \in Procs : signUpInsert(p)
    \/ \E p \in Procs : signUpSaveToken(p)
    \/ \E p \in Procs : signInFindOne(p)
    \/ \E p \in Procs : signInSaveToken(p)

SpecAccount == Init /\ [][NextAccount]_vars

(***************************************************************************)
(* The validated routes: signup, signin, the owner's update, and creation  *)
(* and update of products, with bodies that conform to the route's schema  *)
(* and bodies that do not, one request at a time.                          *)
(***************************************************************************)
\* bodies of POST /user/signin: a conforming one and one without password
ValidateSignins ==
    {Body(Undefined, "a@x.com", Plain("p1"), Undefined),
     Body(Undefined, "a@x.com", NoStr, Undefined)}

\* bodies of POST /product
GoodProduct == PBody(" t1 ", "9", "d1")
NoDescription == PBody("t1", "9", Undefined)
NoTitle == PBody(Undefined, "9", "d1")

\* bodies of PUT /product/:id
NewPrice == PBody(Undefined, "8", Undefined)
EmptyTitle == PBody("", Undefined, Undefined)

NextValidate ==
    \/ postSignup(1, {Alice, NoEmail})
    \/ postSignin(1, ValidateSignins)
    \/ putUser(1, DocIds, OwnerHeaders, {NewPassword, BadUpdate, FullUpdate})
    \/ postProduct(1, {GoodProduct, NoDescription, NoTitle})
    \/ putProduct(1, PathIds, {NewPrice, EmptyTitle})
    \/ Validator(1)
    \/ userPoliceAwait(1)
    \/ signUpFindOne(1)
    \/ signUpInsert(1)
    \/ signUpSaveToken(1)
    \/ signInFindOne(1)
    \/ signInSaveToken(1)
    \/ updateUserByIdFind(1)
    \/ updateUserByIdUpdate(1)
    \/ createProduct(1)
    \/ updateProductById(1)

SpecValidate == Init /\ [][NextValidate]_vars

(***************************************************************************)
(* The token service alone: a payload is issued as a token, the clock      *)
(* runs, and the token is verified, any number of times.                   *)
(***************************************************************************)
\* the payloads signUp and signIn hand to generateTokens
Payloads ==
    {signUpPayload(id, b) : id \in DocIds, b \in {Alice, Bob, AliceUpper}}
      \cup {signInPayload(NewUser(id, b, hashSync(b.password, salt))) :
               id \in DocIds, b \in {Alice, Bob, AliceUpper}, salt \in Salts}

InitJwt ==
    /\ users = {}
    /\ nextId = 1
    /\ now = 0
    /\ \E P \in Payloads :
         req = [p \in Procs |->
                  IF p = 1 THEN [Idle EXCEPT !.pc = "payload", !.payload = P]
                  ELSE Idle]
    /\ started = 0
    /\ known = {}
    /\ closed = {}
    /\ products = {}
    /\ globals = NoGlobals
    /\ router = Listening

\* jwt.generateTokens(payload)
issueToken(p) ==
    /\ req[p].pc = "payload"
    /\ req' = [req EXCEPT ![p].pc = "issued",
                          ![p].tok = generateTokens(req[p].payload, now)]
    /\ UNCHANGED <<users, nextId, now, started, known, closed, products, globals,
                 router>>

\* jwt.verifyAccess(token); at keeps the time of the call
verifyToken(p) ==
    /\ req[p].pc \in {"issued", "verified"}
    /\ req' = [req EXCEPT ![p].pc = "verified", ![p].at = now,
                          ![p].ver = verifyAccess(req[p].tok, now)]
    /\ UNCHANGED <<users, nextId, now, started, known, closed, products, globals,
                 router>>

NextJwt ==
    \/ issueToken(1)
    \/ verifyToken(1)
    \/ Tick

SpecJwt == InitJwt /\ [][NextJwt]_vars

(***************************************************************************)
(* Passwords: signup, the owner's update as controllers/user.controller.js *)
(* has it, and signin with the old and the new password, one request at a  *)
(* time.                                                                   *)
(***************************************************************************)
NextPassword ==
    \/ postSignup(1, {Alice})
    \/ postSignin(1, SigninBodies)
    \/ putUser(1, DocIds, OwnerHeaders, {NewPassword, NewEmail("b@x.com")})
    \/ Validator(1)
    \/ userPoliceAwait(1)
    \/ signUpFindOne(1)
    \/ signUpInsert(1)
    \/ signUpSaveToken(1)
    \/ signInFindOne(1)
    \/ signInSaveToken(1)
    \/ updateUserByIdFindConst(1)
    \/ updateUserByIdUpdate(1)

SpecPassword == Init /\ [][NextPassword]_vars

(***************************************************************************)
(* The gate alone, mounted for every method in front of a stage that only  *)
(* records that it ran: signups issue tokens, the clock runs, and requests *)
(* of every method arrive, one at a time.                                  *)
(***************************************************************************)
Methods == {"GET", "PUT", "DELETE", "OPTIONS"}

NextGateUnit ==
    \/ postSignup(1, {Alice, Bob})
    \/ gateRequest(1, Methods, PathIds, Headers)
    \/ userPoliceAwait(1)
    \/ Validator(1)
    \/ signUpFindOne(1)
    \/ signUpInsert(1)
    \/ signUpSaveToken(1)
    \/ Tick

SpecGateUnit == Init /\ [][NextGateUnit]_vars

(***************************************************************************)
(* The gate under overlapping requests: PUT and DELETE /user/:id arrive    *)
(* with the tokens the signups issued and with tokens built from them,     *)
(* while other requests are waiting for their verification.                *)
(***************************************************************************)
\* Authorization headers of the form "Bearer <token>"
BearerHeaders == {Header(<<Bearer, t>>) : t \in Presentable}

NextGateTwo ==
    \/ \E p \in Procs : postSignup(p, {Alice})
    \/ \E p \in Procs : putUser(p, DocIds, BearerHeaders, {NewPassword})
    \/ \E p \in Procs : deleteUser(p, DocIds, BearerHeaders)
    \/ \E p \in Procs : userPoliceAwait(p)
    \/ \E p \in Procs : Validator(p)
    \/ \E p \in Procs : signUpFindOne(p)
    \/ \E p \in Procs : signUpInsert(p)
    \/ \E p \in Procs : signUpSaveToken(p)
    \/ \E p \in Procs : updateUserByIdFind(p)
    \/ \E p \in Procs : updateUserByIdUpdate(p)
    \/ \E p \in Procs : deleteUserByIdFind(p)
    \/ \E p \in Procs : deleteUserByIdDelete(p)

SpecGateTwo == Init /\ [][NextGateTwo]_vars

(***************************************************************************)
(* Signup alone: bodies that leave is_active out, give it as a boolean, as *)
(* a string that spells one, or as something else, one request at a time.  *)
(***************************************************************************)
SignupBodies ==
    {[b EXCEPT !.is_active = a] :
        b \in {Alice, Bob},
        a \in {Undefined, "true", "false", "str:true", "maybe"}}

NextSignup ==
    \/ postSignup(1, SignupBodies)
    \/ Validator(1)
    \/ signUpFindOne(1)
    \/ signUpInsert(1)
    \/ signUpSaveToken(1)

SpecSignup == Init /\ [][NextSignup]_vars

(***************************************************************************)
(* Failures: the user and product routes, one request at a time, where any *)
(* operation a handler relies on may fail.                                 *)
(***************************************************************************)
NextFailure ==
    \/ postSignup(1, {Alice})
    \/ postSignin(1, ValidateSignins)
    \/ postLogout(1, Cookies)
    \/ putUser(1, DocIds, OwnerHeaders, {NewPassword})
    \/ deleteUser(1, DocIds, OwnerHeaders)
    \/ postProduct(1, {GoodProduct, NoDescription})
    \/ putProduct(1, DocIds, {NewPrice})
    \/ Validator(1)
    \/ userPoliceAwait(1)
    \/ signUpFindOne(1)
    \/ signUpInsert(1)
    \/ signUpSaveToken(1)
    \/ signInFindOne(1)
    \/ signInSaveToken(1)
    \/ logout(1)
    \/ getUsers
    \/ updateUserByIdFind(1)
    \/ updateUserByIdUpdate(1)
    \/ deleteUserByIdFind(1)
    \/ deleteUserByIdDelete(1)
    \/ createProduct(1)
    \/ updateProductById(1)
    \/ rejects(1)

SpecFailure == Init /\ [][NextFailure]_vars

(***************************************************************************)
(* Loading: the factory is called with the keys of the routes and with     *)
(* keys that are not registered, in any order; once the server listens,    *)
(* signups and signins arrive, one at a time.                              *)
(***************************************************************************)
\* purpose keys a route module may ask for
PurposeKeys == Validators \cup {"signin", "constructor"}

InitLoading ==
    /\ users = {}
    /\ nextId = 1
    /\ now = 0
    /\ req = [p \in Procs |-> Idle]
    /\ started = 0
    /\ known = {}
    /\ closed = {}
    /\ products = {}
    /\ globals = NoGlobals
    /\ router = Loading

NextLoading ==
    \/ \E validator \in PurposeKeys : construct(validator)
    \/ listen
    \/ postSignup(1, {Alice, NoEmail})
    \/ postSignin(1, ValidateSignins)
    \/ Validator(1)
    \/ signUpFindOne(1)
    \/ signUpInsert(1)
    \/ signUpSaveToken(1)
    \/ signInFindOne(1)
    \/ signInSaveToken(1)

SpecLoading == InitLoading /\ [][NextLoading]_vars

(***************************************************************************)
(* Properties of the authorization gate (SpecGate).                        *)
(***************************************************************************)
Gated(r) == r.route \in {"put", "delete"}

\* the string in the token position of the Authorization header
TokenOf(r) == IF r.hdr.k = "header" THEN Part(r.hdr, 2) ELSE NoStr

\* the first word of the Authorization header
SchemeOf(r) == IF r.hdr.k = "header" THEN Part(r.hdr, 1) ELSE NoStr

\* the token was issued by the service and had not expired when r arrived
Genuine(r) == TokenOf(r) \in KnownTokens /\ r.at < TokenOf(r).body.exp

\* the token verifies, and it was issued to another id than the path's
Foreign(r) == Gated(r) /\ Genuine(r) /\ TokenOf(r).body.id # r.pathId

Rejected(r, statuses) ==
    /\ r.pc \in {"gateAwait", "done"}
    /\ r.pc = "done" => r.status \in statuses
    /\ r.nextCalls = 0
    /\ r.ran = {}

\* C1: a PUT or DELETE on /user/{id} whose bearer token verifies but carries
\* another id than the path is answered 403 by the gate; neither the
\* validator nor the handler is invoked for it, and the step that answers
\* it leaves every user record as it is.
C1_ForeignTokenForbidden ==
    [][\A p \in Procs :
          Foreign(req'[p]) =>
             /\ Rejected(req'[p], {403})
             /\ req'[p] # req[p] => users' = users]_vars

C1_Witness ==
    \E p \in Procs :
       /\ Foreign(req[p]) /\ req[p].pc = "done" /\ req[p].status = 403
       /\ SchemeOf(req[p]) = Bearer
       /\ \E u \in users : u._id = req[p].pathId

\* C2: the gate invokes the next stage only for a token that the service
\* issued with its key and that had not expired; every other token (altered,
\* signed with another key, no JWT at all, expired) is answered 400 or 403
\* and the next stage never runs.
C2_OnlyGenuineTokensPass ==
    \A p \in Procs :
       Gated(req[p]) =>
          /\ req[p].nextCalls > 0 => Genuine(req[p])
          /\ ~Genuine(req[p]) => Rejected(req[p], {400, 403})

\* an expired token of the path's own user is turned away
C2_Witness ==
    \E p \in Procs :
       /\ Gated(req[p]) /\ req[p].pc = "done" /\ req[p].status = 403
       /\ SchemeOf(req[p]) = Bearer
       /\ TokenOf(req[p]) \in KnownTokens
       /\ TokenOf(req[p]).body.id = req[p].pathId
       /\ req[p].at >= TokenOf(req[p]).body.exp

\* a header of the form "Bearer <token>"
WellFormed(hdr) ==
    /\ hdr.k = "header"
    /\ Len(hdr.parts) = 2
    /\ hdr.parts[1] = Bearer
    /\ ~Falsy(hdr.parts[2])

\* C3: a request whose Authorization header is absent or is not of the form
\* "Bearer <token>" is answered 403 and the next stage does not run, even
\* when the string in the token position is a valid token.
C3_MalformedHeaderRejected ==
    \A p \in Procs :
       Gated(req[p]) /\ ~WellFormed(req[p].hdr) => Rejected(req[p], {403})

\* C4: on PUT /user/{id} the gate runs before the validator and the handler:
\* the body is validated only after the gate has called next(), the handler
\* runs only after the validator, and a request whose token carries another
\* id than the path is answered 403 whether or not its body is valid.
C4_GateBeforeValidator ==
    \A p \in Procs :
       req[p].route = "put" =>
          /\ "validator" \in req[p].ran => req[p].nextCalls >= 1
          /\ "handler" \in req[p].ran => "validator" \in req[p].ran
          /\ (/\ TokenOf(req[p]).k = "jwt"
              /\ TokenOf(req[p]).body.id # req[p].pathId
              /\ req[p].pc = "done") => req[p].status = 403

\* a foreign token with a body the validator would refuse: 403, not 400
C4_Witness ==
    \E p \in Procs :
       /\ req[p].route = "put" /\ Foreign(req[p])
       /\ ~validateAsync("update", req[p].body).ok
       /\ req[p].pc = "done" /\ req[p].status = 403

(***************************************************************************)
(* Properties of sessions (SpecSession).                                   *)
(***************************************************************************)
\* request p's findOneAndUpdate runs in this step
LogoutStep(p) ==
    /\ req[p].route = "logout" /\ req[p].pc = "findOneAndUpdate"
    /\ req'[p].pc = "done"

\* the records whose stored session hash is the hash of token
SessionsOf(token) == {u \in users : compareSync(token, u.token)}

\* C5: a logout that presents the token T returned by a signup or signin,
\* while T's hash is the stored session hash of a record, is answered 200
\* and leaves that record with an empty session hash and the active flag
\* false.
C5_LogoutWithIssuedToken ==
    [][\A p \in Procs :
          (/\ LogoutStep(p)
           /\ req[p].cookie \in KnownTokens
           /\ SessionsOf(req[p].cookie) # {}) =>
             /\ req'[p].status = 200
             /\ \A u \in SessionsOf(req[p].cookie) :
                   \E v \in users' :
                      v._id = u._id /\ v.token = EmptyStr /\ ~v.is_active]_vars

\* C6: once a logout presenting T has succeeded, and as long as no session
\* has been created since, a logout presenting T is answered 400 and changes
\* no user record.
C6_ClosedTokenRefused ==
    [][\A p \in Procs :
          LogoutStep(p) /\ req[p].cookie \in closed =>
             req'[p].status = 400 /\ users' = users]_vars

C6_Witness ==
    \E p \in Procs :
       /\ req[p].route = "logout" /\ req[p].pc = "done"
       /\ req[p].cookie \in closed
       /\ req[p].status = 400

\* C7: a record has a stored session hash only while its active flag is true.
C7_HashOnlyWhileActive ==
    \A u \in users : u.token.k = "bcrypt" => u.is_active

(***************************************************************************)
(* Properties of the emails (SpecEmail, SpecEmailSeq).                     *)
(***************************************************************************)
\* the records whose email equals e, ignoring letter case
SameEmail(e) == {u \in users : ToLower(u.email) = ToLower(e)}

\* request p's User.findOne of signUp runs in this step
SignUpFindOneStep(p) ==
    /\ req[p].route = "signup" /\ req[p].pc = "findOne"
    /\ req'[p] # req[p]

\* C8: a signup (with a body the validator accepts) whose email equals,
\* ignoring letter case, the email of an existing record is answered 403,
\* whatever its name and password, and no user record is added or changed.
C8_DuplicateEmailConflict ==
    [][\A p \in Procs :
          SignUpFindOneStep(p) /\ SameEmail(req[p].body.email) # {} =>
             /\ req'[p].pc = "done" /\ req'[p].status = 403
             /\ users' = users]_vars

\* the email differs in case only, the name and the password differ too
C8_Witness ==
    \E p \in Procs :
       /\ req[p].route = "signup" /\ req[p].pc = "done" /\ req[p].status = 403
       /\ \E u \in SameEmail(req[p].body.email) :
             /\ u.email # req[p].body.email
             /\ u.full_name # req[p].body.full_name
             /\ ~compareSync(req[p].body.password, u.password)

\* C9: no two user records have emails that are equal ignoring letter case.
C9_EmailsUnique ==
    \A u, v \in users : u._id # v._id => ToLower(u.email) # ToLower(v.email)

\* two requests of which one arrived while the other was in flight
Concurrent(p, q) ==
    p # q /\ (req[p].n \in req[q].overlap \/ req[q].n \in req[p].overlap)

\* C10: when two signups with the same email ran concurrently and both have
\* been answered, at most one of them was answered 200 and at most one
\* record holds that email.
C10_ConcurrentSignupOnce ==
    \A p, q \in Procs :
       (/\ Concurrent(p, q)
        /\ req[p].route = "signup" /\ req[p].pc = "done"
        /\ req[q].route = "signup" /\ req[q].pc = "done"
        /\ ToLower(req[p].body.email) = ToLower(req[q].body.email)) =>
          /\ ~(req[p].status = 200 /\ req[q].status = 200)
          /\ Cardinality(SameEmail(req[p].body.email)) <= 1

(***************************************************************************)
(* Properties of the tokens and of signin (SpecSession, SpecSessionSeq).   *)
(***************************************************************************)
\* C11: the payload of every token that signup or signin has issued holds a
\* bcrypt hash in its password field, never the plaintext password.
C11_TokenCarriesHashOnly ==
    \A t \in KnownTokens : t.body.password.k = "bcrypt"

\* request p's User.findOne of signIn runs in this step
SignInFindOneStep(p) ==
    /\ req[p].route = "signin" /\ req[p].pc = "findOne"
    /\ req'[p] # req[p]

\* the records signIn's findOne can return for the email e
FoundBy(e) == {u \in users : u.email = ToLower(e)}

\* C12: a signin whose email matches no record is answered 404, one whose
\* password is not the one the matched record's hash was made from is
\* answered 400; neither issues a token or sets a cookie, and every user
\* record, with its session hash and active flag, stays as it is.
C12_FailedSigninChangesNothing ==
    [][\A p \in Procs :
          (/\ SignInFindOneStep(p)
           /\ \A u \in FoundBy(req[p].body.email) :
                 u.password.of # req[p].body.password) =>
             /\ req'[p].pc = "done"
             /\ req'[p].status =
                   IF FoundBy(req[p].body.email) = {} THEN 404 ELSE 400
             /\ req'[p].resTok = NoStr /\ req'[p].resCookie = NoStr
             /\ users' = users /\ known' = known]_vars

\* a wrong password for a record that has a session: 400, the session stays
C12_Witness ==
    \E p \in Procs :
       /\ req[p].route = "signin" /\ req[p].pc = "done" /\ req[p].status = 400
       /\ \E u \in FoundBy(req[p].body.email) :
             u.token.k = "bcrypt" /\ u.is_active

\* request p's second user.save() succeeds and the response is sent in this step
SaveTokenStep(p) ==
    /\ req[p].pc = "saveToken"
    /\ req'[p].pc = "done" /\ req'[p].status = 200

\* C13: when a signup or signin is answered 200, the session hash stored on
\* the user's record is the hash of the token that response returns, which
\* is the token most recently returned for that user, and the cookie of the
\* response carries the same token as its body.
C13_StoredHashOfLastToken ==
    [][\A p \in Procs :
          SaveTokenStep(p) =>
             /\ req'[p].resTok.k = "jwt"
             /\ req'[p].resCookie = req'[p].resTok
             /\ \E u \in users' :
                   /\ u._id = req'[p].resTok.body.id
                   /\ compareSync(req'[p].resTok, u.token)]_vars

\* a signin replaces the hash of a token returned earlier for the same user
C13_Witness ==
    \E p \in Procs :
       /\ req[p].route = "signin" /\ req[p].pc = "done" /\ req[p].status = 200
       /\ req[p].resCookie = req[p].resTok
       /\ \E u \in users :
             /\ u._id = req[p].resTok.body.id
             /\ compareSync(req[p].resTok, u.token)
       /\ \E t \in KnownTokens :
             t # req[p].resTok /\ t.body.id = req[p].resTok.body.id

\* C16: the token a successful signup or signin returns is none of the
\* tokens returned before it.
C16_TokensDiffer ==
    [][\A p \in Procs : SaveTokenStep(p) => req'[p].resTok \notin known]_vars

\* the records created by a signup with email e and password pw that was
\* answered 200
SignedUpWith(e, pw) ==
    {u \in users : /\ u.email = ToLower(e)
                   /\ u.password.of = pw
                   /\ \E t \in KnownTokens : t.body.id = u._id}

\* C14: a signin with the email and password of a successful signup, whose
\* record was neither updated nor deleted, is not turned away by signIn: it
\* goes on to issue a token, also when the email was sent in upper case.
C14_SigninAfterSignup ==
    [][\A p \in Procs :
          (/\ SignInFindOneStep(p)
           /\ SignedUpWith(req[p].body.email, req[p].body.password) # {}) =>
             req'[p].pc = "saveToken"]_vars

\* C15: the gate lets a PUT or DELETE through only while the record of the
\* path id has a session: after a logout has cleared the session hash, the
\* token of that session is rejected.
C15_ClosedSessionRejected ==
    \A p \in Procs :
       Gated(req[p]) /\ req[p].nextCalls > 0 =>
          \A u \in users : u._id = req[p].pathId => u.token # EmptyStr

(***************************************************************************)
(* Properties of the token service (SpecJwt).                              *)
(***************************************************************************)
PayloadFields == {"id", "full_name", "email", "password", "is_active"}

\* C17: verifying a token issued for the payload P returns every field of P
\* unchanged when the call is made before issued-at plus the configured
\* lifetime, and fails when it is made at that time or later.
C17_VerifyReturnsPayload ==
    \A p \in Procs :
       req[p].pc = "verified" =>
          LET r == req[p]
          IN IF r.at < r.tok.body.iat + AccessTime
             THEN /\ r.ver.err = "none"
                  /\ \A f \in PayloadFields : r.ver.data.v[f] = r.payload[f]
             ELSE r.ver.err = "TokenExpiredError"

\* a token verified later than it was issued, before its expiry
C17_Witness ==
    \E p \in Procs :
       /\ req[p].pc = "verified" /\ req[p].ver.err = "none"
       /\ req[p].at > req[p].tok.body.iat
       /\ req[p].ver.data.v.password = req[p].payload.password

(***************************************************************************)
(* Properties of the validated routes (SpecValidate).                      *)
(***************************************************************************)
ValidatedRoutes == {"signup", "signin", "put", "createProduct", "updateProduct"}

\* the body of r does not conform to the schema of r's route
NonConforming(r) ==
    /\ r.route \in ValidatedRoutes
    /\ ~validateAsync(ValidatorOf(r.route), r.body).ok

\* C18: on a validated route, a request whose body does not conform to the
\* route's schema is answered 400 by the validator once it reaches it, its
\* handler is never invoked, and no step of it creates or changes a record.
C18_NonConformingRejected ==
    [][\A p \in Procs :
          NonConforming(req'[p]) /\ req'[p] # req[p] =>
             /\ "handler" \notin req'[p].ran
             /\ ("validator" \in req'[p].ran /\ req'[p].pc = "done") =>
                    req'[p].status = 400
             /\ users' = users /\ products' = products]_vars

\* a product body without its required title, answered 400 by the validator
C18_Witness ==
    \E p \in Procs :
       /\ req[p].route = "createProduct" /\ NonConforming(req[p])
       /\ req[p].pc = "done" /\ req[p].status = 400
       /\ req[p].ran = {"validator"}

\* C19: a creation of a product whose body the createProduct validator
\* accepted is answered 200, never 500, and the product is stored.
C19_ValidatedProductStored ==
    \A p \in Procs :
       (/\ req[p].route = "createProduct" /\ req[p].pc = "done"
        /\ ~NonConforming(req[p])) =>
          /\ req[p].status = 200
          /\ \E d \in products : d.title = req[p].body.title

\* request p's findByIdAndUpdate runs in this step and is answered 200
UpdateStep(p) ==
    /\ req[p].route = "put" /\ req[p].pc = "update"
    /\ req'[p].pc = "done" /\ req'[p].status = 200

\* C20: after a successful owner PUT /user/{id} the stored record has the
\* full_name, email and is_active of the body, and a field the body leaves
\* out keeps the value it had.
C20_UpdateStoresBody ==
    [][\A p \in Procs :
          UpdateStep(p) =>
             LET b == req[p].body
             IN \A u \in users :
                   u._id = req[p].pathId =>
                      \E v \in users' :
                         /\ v._id = u._id
                         /\ v.full_name = IF b.full_name = Undefined
                                          THEN u.full_name ELSE b.full_name
                         /\ v.email = IF b.email = Undefined
                                      THEN u.email ELSE b.email
                         /\ v.is_active = IF b.is_active = Undefined
                                          THEN u.is_active
                                          ELSE b.is_active = "true"]_vars

(***************************************************************************)
(* Properties of deletion, of path ids and of logout.                      *)
(***************************************************************************)
\* request p's deleteUserById sends its response in this step
DeleteAnswered(p) ==
    /\ req[p].route = "delete" /\ req[p].pc \in {"findById", "delete"}
    /\ req'[p].pc = "done"

\* C22: an owner DELETE /user/{id} on an existing record is answered 200 and
\* removes exactly that record; one on a record that is gone (deleted by an
\* earlier DELETE with the same token) is answered 400 and leaves the
\* collection as it is.
C22_DeleteThenNotFound ==
    [][\A p \in Procs :
          DeleteAnswered(p) =>
             IF Exists(req[p].pathId)
             THEN /\ req'[p].status = 200
                  /\ users' = {u \in users : u._id # req[p].pathId}
             ELSE /\ req'[p].status = 400
                  /\ users' = users]_vars

\* the second DELETE with the token of the deleted user: 400
C22_Witness ==
    \E p \in Procs :
       /\ req[p].route = "delete" /\ req[p].pc = "done" /\ req[p].status = 400
       /\ Genuine(req[p]) /\ TokenOf(req[p]).body.id = req[p].pathId
       /\ req[p].pathId < nextId /\ ~Exists(req[p].pathId)

\* C23: a PUT or DELETE whose path id is not a well-formed identifier, sent
\* with a token that verifies, is answered 400.
C23_InvalidIdBadRequest ==
    \A p \in Procs :
       (/\ Gated(req[p]) /\ Genuine(req[p])
        /\ ~isValidObjectId(req[p].pathId)
        /\ req[p].pc = "done") => req[p].status = 400

\* C27: a logout whose cookie value is not a token that signup or signin
\* returned (the stored session hash, for one) is answered 400 and changes
\* no record.
C27_LogoutOnlyWithIssuedToken ==
    [][\A p \in Procs :
          LogoutStep(p) /\ req[p].cookie \notin KnownTokens =>
             req'[p].status = 400 /\ users' = users]_vars

(***************************************************************************)
(* Two logouts at once (SpecSession).                                      *)
(***************************************************************************)
\* request q is a logout with the cookie of p, in flight together with p
LogoutTwin(p, q) ==
    /\ Concurrent(p, q)
    /\ req[q].route = "logout"
    /\ req[q].cookie = req[p].cookie

\* C28: of two concurrent logouts whose cookie matches the stored session
\* hash of a record, the one whose findOneAndUpdate runs first is answered
\* 200 and leaves the record with an empty session hash and the active flag
\* false; the other is answered 400 and changes nothing, so the record stays
\* that way.
C28_ConcurrentLogoutOnce ==
    [][\A p, q \in Procs :
          (LogoutStep(p) /\ LogoutTwin(p, q)) =>
             /\ (req[q].pc = "findOneAndUpdate"
                   /\ logoutFilter(req[p].cookie) # {}) =>
                  /\ req'[p].status = 200
                  /\ \A u \in logoutFilter(req[p].cookie) :
                        \E v \in users' :
                           v._id = u._id /\ v.token = EmptyStr /\ ~v.is_active
                  /\ \A v \in users' : v.token # req[p].cookie
             /\ (req[q].pc = "done" /\ req[q].status = 200) =>
                  /\ req'[p].status = 400
                  /\ users' = users
                  /\ \A v \in users : v.token # req[p].cookie
                  /\ \E v \in users : v.token = EmptyStr /\ ~v.is_active]_vars

C28_Witness ==
    \E p, q \in Procs :
       /\ LogoutTwin(p, q)
       /\ req[p].route = "logout"
       /\ req[p].pc = "done" /\ req[p].status = 200
       /\ req[q].pc = "done" /\ req[q].status = 400
       /\ \E v \in users : v.token = EmptyStr /\ ~v.is_active


(***************************************************************************)
(* The owner's update of the password (SpecPassword).                      *)
(***************************************************************************)
\* the handler of an update whose body has a password sends its answer
PasswordUpdateAnswered(p) ==
    /\ req[p].route = "put" /\ req[p].pc \in {"findById", "update"}
    /\ ~Falsy(req[p].body.password)
    /\ Exists(req[p].pathId)
    /\ req'[p].pc = "done"

\* C21: an update by the owner that supplies a password p2 is answered 200
\* and leaves the hash of p2 as the stored password; from then on a signin
\* with p2 passes the password check and a signin with another password is
\* answered 400.
C21_PasswordUpdate ==
    [][\A p \in Procs :
          /\ PasswordUpdateAnswered(p) =>
                /\ req'[p].status = 200
                /\ \E v \in users' :
                      /\ v._id = req[p].pathId
                      /\ compareSync(req[p].body.password, v.password)
          /\ (SignInFindOneStep(p) /\ FoundBy(req[p].body.email) # {}) =>
                \A u \in FoundBy(req[p].body.email) :
                   IF compareSync(req[p].body.password, u.password)
                   THEN req'[p].pc = "saveToken"
                   ELSE req'[p].pc = "done" /\ req'[p].status = 400]_vars


(***************************************************************************)
(* The gate as a middleware (SpecGateUnit, SpecGateTwo).                   *)
(***************************************************************************)
\* the gate has finished with request p in this step
GateFinished(p) ==
    /\ req'[p].route = "gate" /\ req'[p].pc = "done"
    /\ req'[p] # req[p]

GateStep(p) == req[p].pc = "gateAwait" /\ req'[p] # req[p]

\* what verifying the token of request r itself gives
OwnVerdict(r) == to(verifyAccess(TokenOf(r), r.at))

\* the gate has let the request through in this step
Passed(p) == req'[p].nextCalls = req[p].nextCalls + 1

\* C30: whatever other requests are waiting at the gate, the gate decides on
\* a request by that request's own token: it rejects it with 403 when its
\* token does not verify or is issued to another id than the path's, and
\* otherwise lets it through with the payload of its own token attached.
C30_GateUsesOwnToken ==
    [][\A p \in Procs :
          GateStep(p) =>
             LET own == OwnVerdict(req[p])
             IN IF own.error
                THEN /\ req'[p].pc = "done" /\ req'[p].status = 403
                     /\ ~Passed(p)
                     /\ req'[p].user = NoData
                ELSE /\ req'[p].user = own.decodedData
                     /\ IF own.decodedData.v.id = req[p].pathId
                        THEN Passed(p)
                        ELSE /\ req'[p].pc = "done" /\ req'[p].status = 403
                             /\ ~Passed(p)]_vars

\* two requests with different tokens were at the gate together; one was let
\* through with its own identity and the other was rejected
C30_Witness ==
    \E p, q \in Procs :
       /\ Concurrent(p, q)
       /\ Gated(req[p]) /\ Gated(req[q])
       /\ TokenOf(req[p]) # TokenOf(req[q])
       /\ req[p].pc = "done" /\ req[p].status = 200
       /\ "handler" \in req[p].ran
       /\ req[p].user = OwnVerdict(req[p]).decodedData
       /\ req[q].pc = "done" /\ req[q].status = 403
       /\ req[q].overlap = {req[p].n}


(***************************************************************************)
(* Failures inside the handlers (SpecFailure).                             *)
(***************************************************************************)
\* the step of request p's handler that is about to run cannot succeed
Failing(p) ==
    \/ req[p].pc = "saveToken" /\ ~Exists(req[p].doc)
    \/ req[p].pc = "update" /\ ~Exists(req[p].pathId)
    \/ req[p].pc = "productSave" /\ ~productSchema(req[p].body)

\* a failure is raised inside the handler of request p in this step
Raised(p) ==
    /\ req[p].pc \in HandlerPcs
    /\ req'[p] # req[p]
    /\ Failing(p) \/ req'[p].caught # NoError

Submitted(r) ==
    IF r.raw.is_active = Undefined THEN "false" ELSE ToBoolean(r.raw.is_active)

\* the validator hands request p on to signUp in this step
SignupValidated(p) ==
    /\ req[p].route = "signup" /\ req[p].pc = "validate"
    /\ req'[p].pc = "findOne"

\* signUp sends its 200 in this step
SignupAnswered(p) ==
    /\ req[p].route = "signup" /\ req[p].pc = "saveToken"
    /\ req'[p].status = 200

\* C25: a signup body the validator accepts reaches signUp with is_active
\* false when the client left it out and with the submitted boolean
\* otherwise, and the user object of the signup response has that same
\* is_active.
C25_SignupDefaultApplied ==
    [][\A p \in Procs :
          /\ SignupValidated(p) => req'[p].body.is_active = Submitted(req[p])
          /\ SignupAnswered(p) => req'[p].resUser.is_active = Submitted(req[p])]_vars

C25_Witness ==
    \E p \in Procs :
       /\ req[p].route = "signup" /\ req[p].pc = "done" /\ req[p].status = 200
       /\ req[p].raw.is_active = Undefined
       /\ req[p].body.is_active = "false"
       /\ req[p].resUser.is_active = "false"


(***************************************************************************)
(* The validator factory (SpecLoading).                                    *)
(***************************************************************************)
\* C26: a call of the factory with a key that is not registered throws at
\* once, while the routes are loaded and before any request has been
\* received, so every validator that exists, and every validator a request
\* runs through, was built for a registered key; a call with a registered key
\* never throws.
C26_UnknownSchemaFailsAtLoad ==
    /\ router.mounted \subseteq Validators
    /\ router.key \in Validators =>
          router.phase # "failed" /\ router.key \in router.mounted
    /\ router.key \notin Validators \cup {NoKey} =>
          /\ router.phase = "failed" /\ router.error = router.key
          /\ router.key \notin router.mounted
          /\ started = 0
          /\ \A p \in Procs : req[p] = Idle
    /\ \A p \in Procs :
          "validator" \in req[p].ran =>
             /\ router.phase = "listening"
             /\ ValidatorOf(req[p].route) \in router.mounted \cap Validators

\* the factory threw for an inherited name after it had built validators
C26_Witness ==
    /\ router.phase = "failed"
    /\ router.key = "constructor"
    /\ router.mounted # {}


====
